---- MODULE Spec2Model ----
(***************************************************************************)
(* A model of git-upstream (src/main.rs): one run of `main`, which parses  *)
(* the configuration, resolves the branch, lists the remotes of the        *)
(* repository and pushes to one remote after another until a push works.   *)
(*                                                                         *)
(* A Rust String is modelled as a sequence of one-character strings        *)
(* (<<"o","r","i","g","i","n">> is "origin") so that the ordering of the   *)
(* BTreeSet<String> and str::trim are computed, not assumed.  An           *)
(* Option<T> is a sequence of length 0 (None) or 1 (Some).                 *)
(*                                                                         *)
(* Spec draws the remotes of the repository, the REMOTE argument, the      *)
(* remotes of the configuration file, --fail-fast and --branch freely      *)
(* within the bounds; the options that only shape the `git push` command   *)
(* are all off or all on (ParseConfig takes the sets to draw from).        *)
(* SpecAnyOptions draws every setting of those options over fewer          *)
(* remotes, and FairSpec adds the fairness of main's steps to the runs     *)
(* with at most one remote in the configuration file.                      *)
(***************************************************************************)
EXTENDS Integers, Sequences, FiniteSets, TLC

VARIABLES
    pc,                  \* position of main: "new", "branch", "prefs", "list",
                         \* "pref_loop", "rest_loop", "done"
    cli,                 \* Config::cli, the parsed command line
    file,                \* Config::file, the parsed configuration file
    known,               \* the remotes of the repository (what `git remote` prints)
    branch,              \* main's local `branch`
    remote_preferences,  \* main's local `remote_preferences`
    pref_idx,            \* position of the first `for` loop in remote_preferences
    remotes,             \* main's local `remotes`, a BTreeSet<String>
    pushes,              \* the `git push` commands run so far, with their outcome
    result,              \* what main returned: "running", "Ok" or the error
    commands,            \* the git subcommands run so far, in order
    error                \* the error main returned, if any: Some of its text and
                         \* of the values the text names

vars == <<pc, cli, file, known, branch, remote_preferences, pref_idx, remotes,
          pushes, result, commands, error>>

----------------------------------------------------------------------------
(* Bounds and the inputs drawn from them *)

MaxNames == 3
MaxFileRemotes == 2

Origin == <<"o","r","i","g","i","n">>
Upstream == <<"u","p","s","t","r","e","a","m">>
Fork == <<"f","o","r","k">>
Or == <<"o","r">>
Ghost == <<"g","h","o","s","t">>

\* the names a remote of the repository is drawn from: the first MaxNames
NamePool == <<Origin, Upstream, Fork, Or>>

Min(a, b) == IF a < b THEN a ELSE b

Names == {NamePool[i] : i \in 1..Min(MaxNames, Len(NamePool))}

\* the names the REMOTE argument is drawn from: Ghost is never a remote of
\* the repository
CliNames == Names \cup {Ghost}

SeqsUpTo(S, n) == UNION {[1..k -> S] : k \in 0..n}

None == <<>>

Some(x) == <<x>>

Option(S) == {None} \cup {Some(x) : x \in S}

Feature == <<"f","e","a","t">>

\* what `git rev-parse --abbrev-ref HEAD` prints on the branch main
HeadStdout == <<"m","a","i","n","\n">>

\* a --branch argument that str::trim would change
FeaturePadded == <<" ","f","e","a","t">>

BranchArgs == {Feature, FeaturePadded}

\* the arguments after `--`: none, one that git push knows, and one that
\* spells an option try_push adds itself
ExtraArgs == {<<>>, <<"--tags">>, <<"--force">>}

\* every setting of the options that only shape the `git push` command
PushOptions ==
    [force : BOOLEAN, force_unchecked : BOOLEAN, no_verify : BOOLEAN,
     git_push_args : ExtraArgs]

\* none of these options, or all of them
PlainOrFullPushOptions ==
    {o \in PushOptions :
        \/ (~o.force /\ ~o.force_unchecked /\ ~o.no_verify
            /\ o.git_push_args = <<>>)
        \/ (o.force /\ o.force_unchecked /\ o.no_verify
            /\ o.git_push_args = <<"--tags">>)}

----------------------------------------------------------------------------
(* Strings *)

Alphabet == <<"\n", " ", "a","b","c","d","e","f","g","h","i","j","k","l","m",
              "n","o","p","q","r","s","t","u","v","w","x","y","z">>

\* the byte of a character; only the order of the bytes matters
Byte(c) == CHOOSE i \in 1..Len(Alphabet) : Alphabet[i] = c

RECURSIVE StrLess(_, _)
\* String's Ord: a < b, bytewise lexicographic, a proper prefix first
StrLess(a, b) ==
    IF b = <<>> THEN FALSE
    ELSE IF a = <<>> THEN TRUE
    ELSE IF Head(a) = Head(b) THEN StrLess(Tail(a), Tail(b))
    ELSE Byte(Head(a)) < Byte(Head(b))

IsWhitespace(c) == c \in {" ", "\n"}

RECURSIVE TrimStart(_)
TrimStart(s) ==
    IF s # <<>> /\ IsWhitespace(Head(s)) THEN TrimStart(Tail(s)) ELSE s

RECURSIVE TrimEnd(_)
TrimEnd(s) ==
    IF s # <<>> /\ IsWhitespace(s[Len(s)]) THEN TrimEnd(SubSeq(s, 1, Len(s) - 1))
    ELSE s

\* str::trim
Trim(s) == TrimEnd(TrimStart(s))

\* a set that iterates from its greatest element down
First_Greatest(S) == CHOOSE x \in S : \A y \in S \ {x} : StrLess(y, x)

\* the first element of a BTreeSet<String> in iteration order
First(S) == CHOOSE x \in S : \A y \in S \ {x} : StrLess(x, y)

----------------------------------------------------------------------------
(* Config *)

\* remote_preferences that falls back to origin only when there is no
\* REMOTE argument either
RemotePreferences_OriginIfNothingElse(c, f) ==
    LET ret0 == IF c.remote # None THEN <<c.remote[1]>> ELSE <<>>
    IN  IF f.remotes # <<>> THEN ret0 \o f.remotes
        ELSE IF ret0 = <<>> THEN <<Origin>> ELSE ret0

\* remote_preferences without the fallback to origin
RemotePreferences_NoDefault(c, f) ==
    LET ret0 == IF c.remote # None THEN <<c.remote[1]>> ELSE <<>>
    IN  ret0 \o f.remotes

\* Config::remote_preferences
RemotePreferences(c, f) ==
    LET ret0 == IF c.remote # None THEN <<c.remote[1]>> ELSE <<>>
    IN  IF f.remotes # <<>> THEN ret0 \o f.remotes
        ELSE Append(ret0, Origin)

\* try_push with two independent `if`s for the two force options
PushCommand_BothFlags(c, b, remote) ==
    [args |-> <<"push", "--set-upstream">>,
     remote |-> remote,
     branch |-> b,
     options |-> (IF c.force THEN <<"--force-with-lease">> ELSE <<>>)
                 \o (IF c.force_unchecked THEN <<"--force">> ELSE <<>>)
                 \o (IF c.no_verify THEN <<"--no-verify">> ELSE <<>>)
                 \o c.git_push_args]

\* the command Config::try_push builds
PushCommand(c, b, remote) ==
    [args |-> <<"push", "--set-upstream">>,
     remote |-> remote,
     branch |-> b,
     options |-> (IF c.force THEN <<"--force-with-lease">>
                  ELSE IF c.force_unchecked THEN <<"--force">>
                  ELSE <<>>)
                 \o (IF c.no_verify THEN <<"--no-verify">> ELSE <<>>)
                 \o c.git_push_args]

\* try_push that reports a successful push as Ok(false)
TryPushResult_NeverTrue(c, status_ok) ==
    IF ~status_ok /\ c.fail_fast THEN "Err" ELSE "Ok_false"

\* try_push that never looks at --fail-fast
TryPushResult_IgnoreFailFast(c, status_ok) ==
    IF status_ok THEN "Ok_true" ELSE "Ok_false"

\* try_push that turns every failed push into an error
TryPushResult_AlwaysFailFast(c, status_ok) ==
    IF status_ok THEN "Ok_true" ELSE "Err"

\* what Config::try_push returns for the exit status of `git push`:
\* Ok(true), Ok(false) or Err
TryPushResult(c, status_ok) ==
    IF status_ok THEN "Ok_true"
    ELSE IF c.fail_fast THEN "Err"
    ELSE "Ok_false"

\* the error main ends with when no push worked:
\* miette!("Failed to upstream {branch} to any remote")
AllFailedError(b) ==
    [text |-> "Failed to upstream {branch} to any remote", args |-> <<b>>]

----------------------------------------------------------------------------
(* main *)

Init ==
    /\ pc = "new"
    /\ cli = [fail_fast |-> FALSE, force |-> FALSE, force_unchecked |-> FALSE,
              no_verify |-> FALSE, branch |-> None, remote |-> None,
              git_push_args |-> <<>>]
    /\ file = [remotes |-> <<>>]
    /\ known \in SUBSET Names
    /\ branch = <<>>
    /\ remote_preferences = <<>>
    /\ pref_idx = 1
    /\ remotes = {}
    /\ pushes = <<>>
    /\ result = "running"
    /\ commands = <<>>
    /\ error = None

\* Config::new succeeds: the configuration file is absent (the default, no
\* remotes) or deserialized, and the command line is parsed; the push
\* options, the REMOTE argument and the remotes of the configuration file
\* are drawn from the given sets
ParseConfig(pushOptions, remoteArgs, fileRemotes) ==
    /\ pc = "new"
    /\ \E ff \in BOOLEAN, po \in pushOptions, br \in Option(BranchArgs),
          rm \in Option(remoteArgs), fr \in fileRemotes :
          /\ cli' = [fail_fast |-> ff, force |-> po.force,
                     force_unchecked |-> po.force_unchecked,
                     no_verify |-> po.no_verify, branch |-> br, remote |-> rm,
                     git_push_args |-> po.git_push_args]
          /\ file' = [remotes |-> fr]
    /\ pc' = "branch"
    /\ UNCHANGED <<known, branch, remote_preferences, pref_idx, remotes,
                   pushes, result, commands, error>>

ConfigNew ==
    ParseConfig(PlainOrFullPushOptions, CliNames, SeqsUpTo(Names, MaxFileRemotes))

\* Config::new with every setting of the push options, over fewer remotes
ConfigNewAnyOptions ==
    ParseConfig(PushOptions, {Origin, Ghost}, SeqsUpTo(Names, 1))

\* Config::new with at most one remote in the configuration file
ConfigNewShortList ==
    ParseConfig(PlainOrFullPushOptions, CliNames, SeqsUpTo(Names, 1))

\* Config::new fails: the configuration file cannot be read or deserialized
ConfigNewErr ==
    /\ pc = "new"
    /\ pc' = "done"
    /\ result' = "Err_config"
    /\ error' = Some([text |-> "Failed to read configuration file", args |-> <<>>])
    /\ UNCHANGED <<cli, file, known, branch, remote_preferences, pref_idx,
                   remotes, pushes, commands>>

\* Config::branch that trims the --branch argument like the output of git
BranchOverride_Trimmed ==
    /\ pc = "branch"
    /\ cli.branch # None
    /\ branch' = Trim(cli.branch[1])
    /\ pc' = "prefs"
    /\ UNCHANGED <<cli, file, known, remote_preferences, pref_idx, remotes,
                   pushes, result, commands, error>>

\* Config::branch with --branch given
BranchOverride ==
    /\ pc = "branch"
    /\ cli.branch # None
    /\ branch' = cli.branch[1]
    /\ pc' = "prefs"
    /\ UNCHANGED <<cli, file, known, remote_preferences, pref_idx, remotes,
                   pushes, result, commands, error>>

\* Config::branch asks git for the current branch
BranchQuery ==
    /\ pc = "branch"
    /\ cli.branch = None
    /\ branch' = Trim(HeadStdout)
    /\ pc' = "prefs"
    /\ commands' = Append(commands, "rev-parse")
    /\ UNCHANGED <<cli, file, known, remote_preferences, pref_idx, remotes,
                   pushes, result, error>>

\* Config::branch asks git for the current branch and git fails
BranchQueryErr ==
    /\ pc = "branch"
    /\ cli.branch = None
    /\ pc' = "done"
    /\ result' = "Err_branch"
    /\ commands' = Append(commands, "rev-parse")
    /\ error' = Some([text |-> "git rev-parse failed", args |-> <<>>])
    /\ UNCHANGED <<cli, file, known, branch, remote_preferences, pref_idx,
                   remotes, pushes>>

\* main that walks the preferences from the last to the first
GetRemotePreferences_Reversed ==
    /\ pc = "prefs"
    /\ remote_preferences' =
          LET p == RemotePreferences(cli, file)
          IN  [i \in 1..Len(p) |-> p[Len(p) + 1 - i]]
    /\ pc' = "list"
    /\ UNCHANGED <<cli, file, known, branch, pref_idx, remotes, pushes, result,
                   commands, error>>

\* let remote_preferences = config.remote_preferences();
GetRemotePreferences ==
    /\ pc = "prefs"
    /\ remote_preferences' = RemotePreferences(cli, file)
    /\ pc' = "list"
    /\ UNCHANGED <<cli, file, known, branch, pref_idx, remotes, pushes, result,
                   commands, error>>

\* Config::list_remotes: `git remote` prints one remote per line
ListRemotes ==
    /\ pc = "list"
    /\ known # {}
    /\ remotes' = {Trim(line) : line \in known}
    /\ pc' = "pref_loop"
    /\ commands' = Append(commands, "remote")
    /\ UNCHANGED <<cli, file, known, branch, remote_preferences, pref_idx,
                   pushes, result, error>>

\* list_remotes without the check for an empty set
ListRemotesEmpty_NoCheck ==
    /\ pc = "list"
    /\ known = {}
    /\ remotes' = {}
    /\ pc' = "pref_loop"
    /\ commands' = Append(commands, "remote")
    /\ UNCHANGED <<cli, file, known, branch, remote_preferences, pref_idx,
                   pushes, result, error>>

\* Config::list_remotes: `git remote` prints nothing
ListRemotesEmpty ==
    /\ pc = "list"
    /\ known = {}
    /\ pc' = "done"
    /\ result' = "Err_no_remotes"
    /\ commands' = Append(commands, "remote")
    /\ error' = Some([text |-> "No Git remotes found", args |-> <<>>])
    /\ UNCHANGED <<cli, file, known, branch, remote_preferences, pref_idx,
                   remotes, pushes>>

\* Config::list_remotes: `git remote` fails
ListRemotesErr ==
    /\ pc = "list"
    /\ pc' = "done"
    /\ result' = "Err_list"
    /\ commands' = Append(commands, "remote")
    /\ error' = Some([text |-> "git remote failed", args |-> <<>>])
    /\ UNCHANGED <<cli, file, known, branch, remote_preferences, pref_idx,
                   remotes, pushes>>

\* main that notes the success of a push and forgets to return
AfterTryPush_KeepsGoing(remote, status_ok, next) ==
    LET ret == TryPushResult(cli, status_ok)
    IN  /\ pushes' = Append(pushes, [command |-> PushCommand(cli, branch, remote),
                                     ok |-> status_ok])
        /\ IF ret = "Ok_true" THEN pc' = next /\ result' = "Ok"
           ELSE IF ret = "Err" THEN pc' = "done" /\ result' = "Err_push"
           ELSE pc' = next /\ result' = result
        /\ commands' = Append(commands, "push")
        /\ error' = IF ret = "Err"
                    THEN Some([text |-> "git push failed",
                               args |-> <<remote, branch>>])
                    ELSE error

\* main after config.try_push(&branch, &remote)? in either loop: `next` is
\* the position of the loop when it goes on
AfterTryPush(remote, status_ok, next) ==
    LET ret == TryPushResult(cli, status_ok)
    IN  /\ pushes' = Append(pushes, [command |-> PushCommand(cli, branch, remote),
                                     ok |-> status_ok])
        /\ IF ret = "Ok_true" THEN pc' = "done" /\ result' = "Ok"
           ELSE IF ret = "Err" THEN pc' = "done" /\ result' = "Err_push"
           ELSE pc' = next /\ result' = result
        /\ commands' = Append(commands, "push")
        /\ error' = IF ret = "Err"
                    THEN Some([text |-> "git push failed",
                               args |-> <<remote, branch>>])
                    ELSE error

\* the first loop with `break` in the place of `continue`
PrefNotFound_Break ==
    /\ pc = "pref_loop"
    /\ pref_idx <= Len(remote_preferences)
    /\ remote_preferences[pref_idx] \notin remotes
    /\ pc' = "rest_loop"
    /\ UNCHANGED <<cli, file, known, branch, remote_preferences, pref_idx,
                   remotes, pushes, result, commands, error>>

\* the first loop that gives up on a missing remote under --fail-fast
PrefNotFound_Fatal ==
    /\ pc = "pref_loop"
    /\ pref_idx <= Len(remote_preferences)
    /\ remote_preferences[pref_idx] \notin remotes
    /\ IF cli.fail_fast
       THEN pc' = "done" /\ result' = "Err_missing_remote" /\ pref_idx' = pref_idx
       ELSE pc' = pc /\ result' = result /\ pref_idx' = pref_idx + 1
    /\ UNCHANGED <<cli, file, known, branch, remote_preferences, remotes, pushes,
                   commands, error>>

\* the first loop that pushes to a preferred remote without looking it up
PrefNotFound_PushAnyway ==
    /\ pc = "pref_loop"
    /\ pref_idx <= Len(remote_preferences)
    /\ remote_preferences[pref_idx] \notin remotes
    /\ \E status_ok \in BOOLEAN :
          AfterTryPush(remote_preferences[pref_idx], status_ok, "pref_loop")
    /\ pref_idx' = pref_idx + 1
    /\ UNCHANGED <<cli, file, known, branch, remote_preferences, remotes>>

\* the first loop that gives up on a missing remote
PrefNotFound_Abort ==
    /\ pc = "pref_loop"
    /\ pref_idx <= Len(remote_preferences)
    /\ remote_preferences[pref_idx] \notin remotes
    /\ pc' = "done"
    /\ result' = "Err_missing_remote"
    /\ UNCHANGED <<cli, file, known, branch, remote_preferences, pref_idx,
                   remotes, pushes, commands, error>>

\* first loop, a preferred remote that `remotes` does not hold: continue
PrefNotFound ==
    /\ pc = "pref_loop"
    /\ pref_idx <= Len(remote_preferences)
    /\ remote_preferences[pref_idx] \notin remotes
    /\ pref_idx' = pref_idx + 1
    /\ UNCHANGED <<pc, cli, file, known, branch, remote_preferences, remotes,
                   pushes, result, commands, error>>

\* the first loop with `contains` in the place of `remove`
PrefPush_NoRemove ==
    /\ pc = "pref_loop"
    /\ pref_idx <= Len(remote_preferences)
    /\ LET remote == remote_preferences[pref_idx]
       IN  /\ remote \in remotes
           /\ remotes' = remotes
           /\ \E status_ok \in BOOLEAN : AfterTryPush(remote, status_ok, "pref_loop")
    /\ pref_idx' = pref_idx + 1
    /\ UNCHANGED <<cli, file, known, branch, remote_preferences>>

\* first loop, a preferred remote that `remotes` holds: remove it and push
PrefPush ==
    /\ pc = "pref_loop"
    /\ pref_idx <= Len(remote_preferences)
    /\ LET remote == remote_preferences[pref_idx]
       IN  /\ remote \in remotes
           /\ remotes' = remotes \ {remote}
           /\ \E status_ok \in BOOLEAN : AfterTryPush(remote, status_ok, "pref_loop")
    /\ pref_idx' = pref_idx + 1
    /\ UNCHANGED <<cli, file, known, branch, remote_preferences>>

\* the first loop ends
PrefLoopEnd ==
    /\ pc = "pref_loop"
    /\ pref_idx > Len(remote_preferences)
    /\ pc' = "rest_loop"
    /\ UNCHANGED <<cli, file, known, branch, remote_preferences, pref_idx,
                   remotes, pushes, result, commands, error>>

\* try_push that hands its extra arguments over to the first command
RestPush_DrainsArgs ==
    /\ pc = "rest_loop"
    /\ remotes # {}
    /\ LET remote == First(remotes)
       IN  /\ remotes' = remotes \ {remote}
           /\ \E status_ok \in BOOLEAN : AfterTryPush(remote, status_ok, "rest_loop")
    /\ cli' = [cli EXCEPT !.git_push_args = <<>>]
    /\ UNCHANGED <<file, known, branch, remote_preferences, pref_idx>>

\* second loop: push to the next of the remaining remotes
RestPush ==
    /\ pc = "rest_loop"
    /\ remotes # {}
    /\ LET remote == First(remotes)
       IN  /\ remotes' = remotes \ {remote}
           /\ \E status_ok \in BOOLEAN : AfterTryPush(remote, status_ok, "rest_loop")
    /\ UNCHANGED <<cli, file, known, branch, remote_preferences, pref_idx>>

\* main that ends with Ok(()) when no push worked
AllFailed_Ok ==
    /\ pc = "rest_loop"
    /\ remotes = {}
    /\ pc' = "done"
    /\ result' = "Ok"
    /\ UNCHANGED <<cli, file, known, branch, remote_preferences, pref_idx,
                   remotes, pushes, commands, error>>

\* main whose last error lists the remotes it pushed to
AllFailed_NamesRemotes ==
    /\ pc = "rest_loop"
    /\ remotes = {}
    /\ pc' = "done"
    /\ result' = "Err_all_failed"
    /\ error' = Some([text |-> "Failed to upstream {branch} to any of {remotes}",
                      args |-> <<branch>>
                               \o [i \in 1..Len(pushes) |-> pushes[i].command.remote]])
    /\ UNCHANGED <<cli, file, known, branch, remote_preferences, pref_idx,
                   remotes, pushes, commands>>

\* the second loop ends: Err("Failed to upstream {branch} to any remote")
AllFailed ==
    /\ pc = "rest_loop"
    /\ remotes = {}
    /\ pc' = "done"
    /\ result' = "Err_all_failed"
    /\ error' = Some(AllFailedError(branch))
    /\ UNCHANGED <<cli, file, known, branch, remote_preferences, pref_idx,
                   remotes, pushes, commands>>

Next ==
    \/ ConfigNew
    \/ ConfigNewErr
    \/ BranchOverride
    \/ BranchQuery
    \/ BranchQueryErr
    \/ GetRemotePreferences
    \/ ListRemotes
    \/ ListRemotesEmpty
    \/ ListRemotesErr
    \/ PrefNotFound
    \/ PrefPush
    \/ PrefLoopEnd
    \/ RestPush
    \/ AllFailed

Spec == Init /\ [][Next]_vars

\* every step of main but Config::new
Run ==
    \/ BranchOverride
    \/ BranchQuery
    \/ BranchQueryErr
    \/ GetRemotePreferences
    \/ ListRemotes
    \/ ListRemotesEmpty
    \/ ListRemotesErr
    \/ PrefNotFound
    \/ PrefPush
    \/ PrefLoopEnd
    \/ RestPush
    \/ AllFailed

NextAnyOptions ==
    \/ ConfigNewAnyOptions
    \/ ConfigNewErr
    \/ Run

\* the runs with every setting of the push options
SpecAnyOptions == Init /\ [][NextAnyOptions]_vars

NextShortList ==
    \/ ConfigNewShortList
    \/ ConfigNewErr
    \/ Run

\* main is one thread and every call to git returns, so main always takes
\* its next step; the runs with at most one remote in the configuration file
FairSpec == Init /\ [][NextShortList]_vars /\ WF_vars(NextShortList)

----------------------------------------------------------------------------
(* What the claims speak about *)

Range(s) == {s[i] : i \in DOMAIN s}

IsPrefix(s, t) == Len(s) <= Len(t) /\ SubSeq(t, 1, Len(s)) = s

\* the remotes pushed to so far, in the order of the pushes
PushedRemotes == [i \in 1..Len(pushes) |-> pushes[i].command.remote]

\* the preference list of the run
PreferenceList == RemotePreferences(cli, file)

\* the position of the first occurrence of x in s
FirstIndex(s, x) == CHOOSE i \in DOMAIN s : s[i] = x /\ \A j \in 1..(i - 1) : s[j] # x

RECURSIVE PresentInOrder(_, _)
\* the names of prefs that pool holds, in the order of prefs, each once
PresentInOrder(prefs, pool) ==
    IF prefs = <<>> THEN <<>>
    ELSE IF Head(prefs) \in pool
         THEN <<Head(prefs)>> \o PresentInOrder(Tail(prefs), pool \ {Head(prefs)})
         ELSE PresentInOrder(Tail(prefs), pool)

RECURSIVE Ascending(_)
\* the names of S in ascending lexicographic order
Ascending(S) ==
    IF S = {} THEN <<>>
    ELSE LET m == CHOOSE x \in S : \A y \in S : x = y \/ StrLess(x, y)
         IN  <<m>> \o Ascending(S \ {m})

\* the attempt order of the two-pass design: the preferred remotes that
\* exist, then the other known remotes
AttemptOrderOf(prefs, pool) ==
    LET preferred == PresentInOrder(prefs, pool)
    IN  preferred \o Ascending(pool \ Range(preferred))

AttemptOrder == AttemptOrderOf(PreferenceList, known)

\* the run got as far as the push loops: it has not ended before them
InPushLoops ==
    \/ pc \in {"pref_loop", "rest_loop"}
    \/ (pc = "done"
        /\ result \notin {"Err_config", "Err_branch", "Err_list", "Err_no_remotes"})

\* main holds the value of config.remote_preferences()
PrefsComputed ==
    \/ pc \in {"list", "pref_loop", "rest_loop"}
    \/ (pc = "done" /\ result \notin {"Err_config", "Err_branch"})

\* the REMOTE argument names a remote the repository does not have
CliRemoteMissing == cli.remote # None /\ cli.remote[1] \notin known

\* neither a REMOTE argument nor a list of remotes in the configuration file
NoPreference == cli.remote = None /\ file.remotes = <<>>

----------------------------------------------------------------------------
(* Claims *)

\* C1: the run stops at the first successful push: a successful push is the
\* last push of the run and ends it with success, and the pushes made are
\* a prefix of the attempt order, so they are the prefix that ends with the
\* remote whose push succeeded.
C1_StopsAtFirstSuccess ==
    /\ \A i \in 1..Len(pushes) :
          pushes[i].ok => (i = Len(pushes) /\ pc = "done" /\ result = "Ok")
    /\ IsPrefix(PushedRemotes, AttemptOrder)
    /\ result = "Ok" => (pushes # <<>> /\ pushes[Len(pushes)].ok)

\* a run that succeeded at its second push and left a third candidate alone
C1_Witness ==
    /\ pc = "done" /\ result = "Ok"
    /\ Len(pushes) = 2 /\ ~pushes[1].ok /\ pushes[2].ok
    /\ Len(AttemptOrder) = 3

\* C2: under fail-fast a failed push is the last push of the run and ends
\* it with the error of the push, so at most one push fails.
C2_FailFastStopsAtFirstFailure ==
    cli.fail_fast =>
        \A i \in 1..Len(pushes) :
            ~pushes[i].ok => (i = Len(pushes) /\ pc = "done" /\ result = "Err_push")

\* a fail-fast run ended by a failed push, with candidates left
C2_Witness ==
    /\ cli.fail_fast
    /\ pc = "done" /\ result = "Err_push"
    /\ pushes # <<>> /\ ~pushes[Len(pushes)].ok
    /\ Len(pushes) < Len(AttemptOrder)

\* C3: without fail-fast, after a failed push to candidate N that is not
\* the last candidate the run has pushed to candidate N+1 or is still in
\* its loops, and a run that got to the push loops and ended in failure has
\* pushed to every candidate of the attempt order, in order, and every
\* push failed.
C3_FailureGoesOnToNext ==
    ~cli.fail_fast =>
        /\ \A i \in 1..Len(pushes) :
              (~pushes[i].ok /\ i < Len(AttemptOrder)) =>
                  \/ (i < Len(pushes) /\ PushedRemotes[i + 1] = AttemptOrder[i + 1])
                  \/ (i = Len(pushes) /\ pc \in {"pref_loop", "rest_loop"})
        /\ (pc = "done" /\ InPushLoops /\ result # "Ok") =>
              /\ PushedRemotes = AttemptOrder
              /\ \A i \in 1..Len(pushes) : ~pushes[i].ok
              /\ result = "Err_all_failed"

\* a run without fail-fast that failed after three failed pushes
C3_Witness ==
    /\ ~cli.fail_fast
    /\ pc = "done" /\ result = "Err_all_failed"
    /\ Len(pushes) = 3
    /\ \A i \in 1..3 : ~pushes[i].ok

\* C4: a push to a remote of the preference list is never preceded by a
\* push to a remote outside it, the preferred remotes are pushed to in the
\* order of their first occurrence in the preference list, and when a
\* remote outside the preference list is pushed to, every known remote of
\* the preference list has been pushed to before.
C4_PreferredFirstInOrder ==
    LET P == PreferenceList
        R == PushedRemotes
    IN  /\ \A i \in DOMAIN R : \A j \in DOMAIN R :
              (i < j /\ R[j] \in Range(P)) =>
                  (R[i] \in Range(P) /\ FirstIndex(P, R[i]) < FirstIndex(P, R[j]))
        /\ \A j \in DOMAIN R :
              R[j] \notin Range(P) =>
                  (Range(P) \cap known) \subseteq {R[i] : i \in 1..(j - 1)}

\* two preferred remotes pushed to against the lexicographic order, then a
\* remote outside the preference list
C4_Witness ==
    /\ Len(pushes) = 3
    /\ PushedRemotes[1] \in Range(PreferenceList)
    /\ PushedRemotes[2] \in Range(PreferenceList)
    /\ StrLess(PushedRemotes[2], PushedRemotes[1])
    /\ PushedRemotes[3] \notin Range(PreferenceList)

\* C5 as stated: the preference list is the REMOTE argument when present,
\* then the remotes of the configuration file, and origin only when both
\* are absent.
C5_OriginOnlyWhenNothingElse ==
    PrefsComputed =>
        remote_preferences =
            (IF cli.remote # None THEN <<cli.remote[1]>> ELSE <<>>)
            \o file.remotes
            \o (IF cli.remote = None /\ file.remotes = <<>> THEN <<Origin>> ELSE <<>>)

\* C5 amended: the preference list is the REMOTE argument when present,
\* then the remotes of the configuration file when it lists any, and
\* otherwise origin, whether or not there is a REMOTE argument; with a
\* REMOTE argument r and no remotes in the configuration file it is
\* <<r, origin>>.
C5_OriginWhenFileListEmpty ==
    PrefsComputed =>
        /\ remote_preferences =
              (IF cli.remote # None THEN <<cli.remote[1]>> ELSE <<>>)
              \o file.remotes
              \o (IF file.remotes = <<>> THEN <<Origin>> ELSE <<>>)
        /\ (cli.remote # None /\ file.remotes = <<>>) =>
              remote_preferences = <<cli.remote[1], Origin>>

\* a run with the REMOTE argument upstream and no remotes in the
\* configuration file holds the preference list <<upstream, origin>>
C5_Witness ==
    /\ PrefsComputed
    /\ cli.remote = Some(Upstream)
    /\ file.remotes = <<>>
    /\ remote_preferences = <<Upstream, Origin>>

\* C6 as stated: under fail-fast a REMOTE argument that is not a known
\* remote ends the run with a missing-remote error and nothing is pushed.
C6_MissingCliRemoteIsFatal ==
    (cli.fail_fast /\ CliRemoteMissing) =>
        /\ pushes = <<>>
        /\ (pc = "done" /\ InPushLoops) => result = "Err_missing_remote"

\* C6 amended: under fail-fast a REMOTE argument that is not a known remote
\* is skipped without a push and without an error: the run goes on to the
\* next candidate, so a run that got to the push loops ends with exactly
\* one push, to the first remote of the attempt order, and with the
\* outcome of that push.
C6_MissingCliRemoteIsSkipped ==
    (cli.fail_fast /\ CliRemoteMissing) =>
        /\ cli.remote[1] \notin Range(PushedRemotes)
        /\ (pc = "done" /\ InPushLoops) =>
              /\ Len(pushes) = 1
              /\ PushedRemotes[1] = AttemptOrder[1]
              /\ result = (IF pushes[1].ok THEN "Ok" ELSE "Err_push")

\* fail-fast, REMOTE argument ghost, known remotes {origin}: origin is
\* pushed to
C6_Witness ==
    /\ cli.fail_fast
    /\ cli.remote = Some(Ghost)
    /\ known = {Origin}
    /\ pc = "done"
    /\ PushedRemotes = <<Origin>>

\* C7: no remote is pushed to more than once in a run.
C7_NoRemoteTwice ==
    \A i \in 1..Len(pushes) : \A j \in 1..Len(pushes) :
        i # j => PushedRemotes[i] # PushedRemotes[j]

\* a preference list that repeats a known remote, whose push failed, and a
\* run that went on to push elsewhere
C7_Witness ==
    /\ Len(PreferenceList) >= 2
    /\ PreferenceList[1] = PreferenceList[2]
    /\ PreferenceList[1] \in known
    /\ pc = "done"
    /\ Len(pushes) >= 2
    /\ PushedRemotes[1] = PreferenceList[1]

\* C8: every push goes to a known remote, and a preferred name that is not
\* a known remote leaves the pushes free of repetitions.
C8_OnlyKnownRemotes ==
    /\ \A i \in 1..Len(pushes) : PushedRemotes[i] \in known
    /\ (Range(PreferenceList) \ known # {}) =>
          Cardinality(Range(PushedRemotes)) = Len(pushes)

\* the first preferred name is not a known remote, it was passed over and
\* the run pushed to two known remotes
C8_Witness ==
    /\ PrefsComputed
    /\ remote_preferences[1] \notin known
    /\ pref_idx > 1
    /\ Len(pushes) = 2

\* C9: with no preference of the user and a non-empty set of known remotes
\* the pushes follow the order: origin if it is known, then the other known
\* remotes in ascending lexicographic order; a run in which every push
\* failed has pushed to exactly the known remotes in that order.
C9_DefaultOrder ==
    (NoPreference /\ known # {}) =>
        LET expected == (IF Origin \in known THEN <<Origin>> ELSE <<>>)
                        \o Ascending(known \ {Origin})
        IN  /\ IsPrefix(PushedRemotes, expected)
            /\ (pc = "done" /\ result = "Err_all_failed") =>
                  (PushedRemotes = expected /\ Range(PushedRemotes) = known)

\* no preference, known remotes {fork, origin, upstream}, every push failed:
\* origin, fork, upstream
C9_Witness ==
    /\ pc = "done" /\ result = "Err_all_failed"
    /\ NoPreference
    /\ known = {Fork, Origin, Upstream}
    /\ PushedRemotes = <<Origin, Fork, Upstream>>

\* C10: the pushes to remotes outside the preference list come after the
\* pushes to preferred remotes and in ascending lexicographic order with
\* none passed over; without fail-fast a run in which every push failed has
\* pushed to every known remote exactly once; known remotes {origin,
\* upstream, fork} with the preference list <<upstream>> are pushed to in
\* the order upstream, fork, origin.
C10_RemainderAscending ==
    LET P == PreferenceList
        R == PushedRemotes
    IN  /\ \A i \in DOMAIN R : \A j \in DOMAIN R :
              (i < j /\ R[i] \notin Range(P)) =>
                  (R[j] \notin Range(P) /\ StrLess(R[i], R[j]))
        /\ \A j \in DOMAIN R :
              R[j] \notin Range(P) =>
                  \A x \in known \ Range(P) :
                      StrLess(x, R[j]) => x \in {R[i] : i \in 1..(j - 1)}
        /\ (~cli.fail_fast /\ pc = "done" /\ result = "Err_all_failed") =>
              (Range(R) = known /\ Len(R) = Cardinality(known))
        /\ (P = <<Upstream>> /\ known = {Origin, Upstream, Fork}
            /\ pc = "done" /\ result = "Err_all_failed") =>
              R = <<Upstream, Fork, Origin>>

\* the preference list <<upstream>> over the known remotes {origin,
\* upstream, fork}, every push failed
C10_Witness ==
    /\ ~cli.fail_fast
    /\ pc = "done" /\ result = "Err_all_failed"
    /\ PreferenceList = <<Upstream>>
    /\ known = {Origin, Upstream, Fork}
    /\ PushedRemotes = <<Upstream, Fork, Origin>>

\* C11: when the repository has no remotes nothing is ever pushed, the run
\* never enters the push loops, and once `git remote` has run the run has
\* ended with the no-remotes error (or with the error of `git remote`).
C11_NoRemotesNoPush ==
    known = {} =>
        /\ pushes = <<>>
        /\ "push" \notin Range(commands)
        /\ pc \notin {"pref_loop", "rest_loop"}
        /\ "remote" \in Range(commands) =>
              (pc = "done" /\ result \in {"Err_no_remotes", "Err_list"})
        /\ result \notin {"Ok", "Err_push", "Err_all_failed"}

\* a run over a repository without remotes that ended with the no-remotes
\* error
C11_Witness ==
    /\ known = {}
    /\ pc = "done" /\ result = "Err_no_remotes"
    /\ commands[Len(commands)] = "remote"
    /\ pushes = <<>>

\* C12: a run has ended with Ok (exit code 0) exactly when one of its pushes
\* succeeded; every other run that has ended returned an error, and a run
\* that has not ended has returned nothing.
C12_OkIffAPushSucceeded ==
    /\ pc = "done" =>
          /\ result = "Ok" <=> (\E i \in 1..Len(pushes) : pushes[i].ok)
          /\ result # "Ok" =>
                /\ result \in {"Err_config", "Err_branch", "Err_list",
                               "Err_no_remotes", "Err_push", "Err_all_failed"}
                /\ error # None
          /\ result = "Ok" => error = None
    /\ pc # "done" => (result = "running" /\ error = None)

\* a run that ended with Ok at its first push
C12_Witness ==
    /\ pc = "done" /\ result = "Ok"
    /\ Len(pushes) = 1 /\ pushes[1].ok

\* C13 as stated: the error of a run that exhausted the attempt order names
\* every remote that was pushed to.
C13_ErrorNamesAttemptedRemotes ==
    result = "Err_all_failed" =>
        /\ error # None
        /\ \A i \in 1..Len(pushes) : PushedRemotes[i] \in Range(error[1].args)

\* C13 amended: a run that exhausted the attempt order fails with the error
\* "Failed to upstream {branch} to any remote", which names the branch and
\* nothing else: it does not list the remotes that were pushed to.
C13_ErrorNamesBranchOnly ==
    result = "Err_all_failed" =>
        /\ pc = "done"
        /\ \A i \in 1..Len(pushes) : ~pushes[i].ok
        /\ error = Some([text |-> "Failed to upstream {branch} to any remote",
                         args |-> <<branch>>])

\* two pushes failed, the attempt order is exhausted and the error names
\* the branch only
C13_Witness ==
    /\ pc = "done" /\ result = "Err_all_failed"
    /\ Len(pushes) = 2
    /\ PushedRemotes = AttemptOrder
    /\ error[1].args = <<branch>>

\* C14: without fail-fast a preferred name that is not a known remote is
\* never pushed to and never ends the run: a run that got to the push loops
\* ends with Ok or with the all-failed error, after at least one push; when no
\* name of the preference list is a known remote, the known remotes are
\* pushed to in ascending lexicographic order.
C14_MissingPreferredIsSkipped ==
    ~cli.fail_fast =>
        /\ Range(PushedRemotes) \cap (Range(PreferenceList) \ known) = {}
        /\ (pc = "done" /\ InPushLoops) =>
              (result \in {"Ok", "Err_all_failed"} /\ pushes # <<>>)
        /\ (Range(PreferenceList) \cap known = {} /\ known # {}) =>
              /\ IsPrefix(PushedRemotes, Ascending(known))
              /\ result = "Err_all_failed" => PushedRemotes = Ascending(known)

\* two preferred names, neither a known remote, were passed over and both
\* known remotes were pushed to
C14_Witness ==
    /\ ~cli.fail_fast
    /\ Len(PreferenceList) >= 2
    /\ Range(PreferenceList) \cap known = {}
    /\ pc = "done" /\ result = "Err_all_failed"
    /\ Len(pushes) = 2
    /\ PushedRemotes = Ascending(known)

\* C15: a run that ended with the error of the current-branch query had no
\* --branch argument, ran no other git command, listed no remotes and
\* pushed nothing; with a --branch argument the query is never run and the
\* argument is the branch of the run and of every push, unchanged; without
\* one every push carries the trimmed output of the query.
C15_BranchResolution ==
    /\ result = "Err_branch" =>
          /\ cli.branch = None
          /\ pc = "done"
          /\ commands = <<"rev-parse">>
          /\ remotes = {}
          /\ pushes = <<>>
    /\ cli.branch # None =>
          /\ "rev-parse" \notin Range(commands)
          /\ pc \notin {"new", "branch"} => branch = cli.branch[1]
          /\ \A i \in 1..Len(pushes) : pushes[i].command.branch = cli.branch[1]
    /\ cli.branch = None =>
          \A i \in 1..Len(pushes) :
              pushes[i].command.branch = <<"m","a","i","n">>

\* the current-branch query failed over a repository that has remotes
C15_Witness ==
    /\ pc = "done" /\ result = "Err_branch"
    /\ known # {}
    /\ commands = <<"rev-parse">>

\* a run pushed with the --branch argument " feat" as it was given
C15_OverrideWitness ==
    /\ cli.branch = Some(FeaturePadded)
    /\ pushes # <<>>
    /\ pushes[1].command.branch = FeaturePadded

\* the pushes of the run differ in the remote and in nothing else
SameButRemote ==
    \A i \in 1..Len(pushes) : \A j \in 1..Len(pushes) :
        /\ pushes[i].command.args = pushes[j].command.args
        /\ pushes[i].command.branch = pushes[j].command.branch
        /\ pushes[i].command.options = pushes[j].command.options
        /\ pushes[i].command.branch = branch
        /\ i # j => pushes[i].command.remote # pushes[j].command.remote

\* C16: no step after Config::new changes the command line or the
\* configuration file, no step after Config::branch changes the branch,
\* and after every step the pushes made so far carry the same branch and
\* the same options and extra arguments and differ in the remote only.
C16_SamePolicyEveryAttempt ==
    [][/\ pc # "new" => (cli' = cli /\ file' = file)
       /\ pc \notin {"new", "branch"} => branch' = branch
       /\ SameButRemote']_vars

\* two pushes with --force, --no-verify and an extra argument
C16_Witness ==
    /\ Len(pushes) = 2
    /\ pushes[1].command.options = <<"--force", "--no-verify", "--tags">>
    /\ pushes[2].command.options = <<"--force", "--no-verify", "--tags">>
    /\ pushes[1].command.remote # pushes[2].command.remote

\* C18: every run ends (every call to git returning); a run has returned
\* exactly when it has ended and then nothing changes any more, in
\* particular no push is made; a run makes at most as many pushes as there
\* are known remotes; it ends with the error of a push only under
\* fail-fast.
C18_StateMachine ==
    /\ <>(pc = "done")
    /\ [](pc = "done" <=> result # "running")
    /\ [](Len(pushes) <= Cardinality(known))
    /\ [](result = "Err_push" => cli.fail_fast)
    /\ [][result # "running" => UNCHANGED <<pc, result, pushes, commands>>]_vars

\* a run that succeeded at its third push, over three known remotes
C18_Witness ==
    /\ pc = "done" /\ result = "Ok"
    /\ Cardinality(known) = 3
    /\ Len(pushes) = 3

RECURSIVE TwoPassPushes(_, _, _)
\* the pushes of the two-pass design over the attempt order `order`, its
\* n-th push having the outcome outs[n], as far as outs goes
TwoPassPushes(order, outs, ff) ==
    IF order = <<>> \/ outs = <<>> THEN <<>>
    ELSE <<[remote |-> Head(order), ok |-> Head(outs)]>>
         \o (IF Head(outs) \/ ff THEN <<>>
             ELSE TwoPassPushes(Tail(order), Tail(outs), ff))

\* C19: the pushes of the run, with their outcomes, are the pushes the
\* two-pass design makes over the attempt order under the same outcomes,
\* and the run has ended exactly when the two-pass design has: after a
\* successful push, after a failed push under fail-fast, or with the
\* attempt order exhausted.
C19_SameAsTwoPass ==
    LET n == Len(pushes)
        actual == [i \in 1..n |-> [remote |-> PushedRemotes[i], ok |-> pushes[i].ok]]
        outs == [i \in 1..n |-> pushes[i].ok]
        stopped == n > 0 /\ (pushes[n].ok \/ cli.fail_fast)
    IN  /\ actual = TwoPassPushes(AttemptOrder, outs, cli.fail_fast)
        /\ (pc = "done" /\ InPushLoops) => (stopped \/ n = Len(AttemptOrder))
        /\ pc \in {"pref_loop", "rest_loop"} => ~stopped
        /\ (pc = "done" /\ InPushLoops) =>
              result = (IF ~stopped THEN "Err_all_failed"
                        ELSE IF pushes[n].ok THEN "Ok" ELSE "Err_push")

\* a preference list of three names that repeats its first, and a run over
\* three known remotes in which every push failed
C19_Witness ==
    /\ Len(PreferenceList) = 3
    /\ PreferenceList[1] = PreferenceList[2]
    /\ PreferenceList[3] # PreferenceList[1]
    /\ pc = "done" /\ result = "Err_all_failed"
    /\ Len(pushes) = 3
    /\ PushedRemotes[1] = PreferenceList[1]
    /\ PushedRemotes[2] = PreferenceList[3]

\* the options of a push that try_push added itself: all but the extra
\* arguments at the end
OwnOptions(i) ==
    SubSeq(pushes[i].command.options, 1,
           Len(pushes[i].command.options) - Len(cli.git_push_args))

\* C20 as stated: no push carries both --force-with-lease and --force.
C20_NeverBothForceOptions ==
    \A i \in 1..Len(pushes) :
        ~({"--force-with-lease", "--force"} \subseteq Range(pushes[i].command.options))

\* C20 amended: among the options try_push adds itself no push carries both
\* --force-with-lease and --force: with force set, alone or together with
\* force-unchecked, every push is built with --force-with-lease and without
\* --force, and --force is added exactly when force-unchecked is set and
\* force is not; the extra arguments follow unchanged, so a push carries
\* both only if the user passes the other one after `--`.
C20_OwnForceOptionsExclusive ==
    \A i \in 1..Len(pushes) :
        LET own == Range(OwnOptions(i))
        IN  /\ ~({"--force-with-lease", "--force"} \subseteq own)
            /\ "--force-with-lease" \in own <=> cli.force
            /\ "--force" \in own <=> (cli.force_unchecked /\ ~cli.force)
            /\ pushes[i].command.options = OwnOptions(i) \o cli.git_push_args

\* force and force-unchecked both set: the run pushes, with
\* --force-with-lease only
C20_Witness ==
    /\ cli.force /\ cli.force_unchecked
    /\ pushes # <<>>
    /\ pushes[1].command.options = <<"--force-with-lease">>

====
